---- MODULE Spec2Model ----
(***************************************************************************)
(* Model of issue-make: the issue store (FileManager), the filename codec  *)
(* (utils/path), the frontmatter codec and the AGENTS.md reconciler of the *)
(* open / close command handlers.                                          *)
(*                                                                         *)
(* Text is modelled as a sequence of one-character strings for titles,     *)
(* slugs, filenames, paths and identifiers, and as a sequence of tokens    *)
(* for file bodies, where a token is a line break (NL), one of the two     *)
(* marker strings, a fixed piece of a template, or a piece of user text.   *)
(***************************************************************************)
EXTENDS Integers, Sequences, FiniteSets, TLC

(***************************************************************************)
(* Bounds of the model.                                                    *)
(***************************************************************************)
MaxCreates == 2

(***************************************************************************)
(* Generic helpers on sequences.                                           *)
(***************************************************************************)
Range(s) == {s[i] : i \in 1..Len(s)}

\* s[from..] ; the empty sequence when from is past the end
Drop(s, from) == IF from > Len(s) THEN <<>> ELSE SubSeq(s, from, Len(s))

\* s[1..n] (String.prototype.substring(0, n))
Take(s, n) == IF n >= Len(s) THEN s ELSE SubSeq(s, 1, n)

\* pat occurs in s at position i
MatchAt(s, pat, i) ==
    /\ i >= 1
    /\ i + Len(pat) - 1 <= Len(s)
    /\ \A k \in 1..Len(pat) : s[i + k - 1] = pat[k]

\* String.prototype.includes
Includes(s, pat) == \E i \in 1..(Len(s) + 1) : MatchAt(s, pat, i)

\* first position >= from where pat occurs in s, 0 when there is none
IndexFrom(s, pat, from) ==
    LET hits == {i \in from..(Len(s) + 1) : MatchAt(s, pat, i)}
    IN  IF hits = {} THEN 0 ELSE CHOOSE i \in hits : \A j \in hits : i <= j

EndsWith(s, pat) == MatchAt(s, pat, Len(s) - Len(pat) + 1)

(***************************************************************************)
(* Character classes.                                                      *)
(***************************************************************************)
Digits == <<"0", "1", "2", "3", "4", "5", "6", "7", "8", "9">>

DigitSet == Range(Digits)

IsDigit(c) == c \in DigitSet

DigitVal(c) == (CHOOSE i \in 1..10 : Digits[i] = c) - 1

\* \s of the regular expressions
IsSpace(c) == c \in {" ", "\n", "\t"}

\* the class [<>:"/\\|?*] of sanitizeTitle
InvalidChars == {"<", ">", ":", "\"", "/", "\\", "|", "?", "*"}

UpperCase == <<"A", "B", "D", "F", "T">>

LowerCase == <<"a", "b", "d", "f", "t">>

\* String.prototype.toLowerCase on one character
ToLowerChar(c) ==
    IF \E i \in 1..Len(UpperCase) : UpperCase[i] = c
    THEN LowerCase[CHOOSE i \in 1..Len(UpperCase) : UpperCase[i] = c]
    ELSE c

\* \p{L} or \p{N}
IsAlnum(c) ==
    \/ IsDigit(c)
    \/ c \in Range(UpperCase)
    \/ c \in Range(LowerCase)
    \/ c \in {"c", "e", "g", "h", "i", "k", "l", "m", "n", "o", "p", "r", "s", "u", "w", "x", "y", "z"}

(***************************************************************************)
(* Decimal numbers.                                                        *)
(***************************************************************************)
RECURSIVE DigitsOf(_)
\* `${number}` for a non-negative integer
DigitsOf(n) ==
    IF n < 10 THEN <<Digits[n + 1]>>
    ELSE DigitsOf(n \div 10) \o <<Digits[(n % 10) + 1]>>

RECURSIVE DigitsValue(_)
\* value of a non-empty sequence of decimal digits
DigitsValue(ds) ==
    IF Len(ds) = 0 THEN 0
    ELSE 10 * DigitsValue(SubSeq(ds, 1, Len(ds) - 1)) + DigitVal(ds[Len(ds)])

\* length of the longest run of digits of s that starts at position i
RECURSIVE DigitRunFrom(_, _)
DigitRunFrom(s, i) ==
    IF i > Len(s) \/ ~IsDigit(s[i]) THEN 0 ELSE 1 + DigitRunFrom(s, i + 1)

\* length of the longest run of digits of s that ends at position i
RECURSIVE DigitRunBack(_, _)
DigitRunBack(s, i) ==
    IF i < 1 \/ ~IsDigit(s[i]) THEN 0 ELSE 1 + DigitRunBack(s, i - 1)

\* parseInt(identifier, 10): leading white space is skipped, an optional
\* sign is read, then the longest prefix of digits; NaN without a digit
ParseInt(s) ==
    LET RECURSIVE SkipSpace(_)
        SkipSpace(i) == IF i <= Len(s) /\ IsSpace(s[i]) THEN SkipSpace(i + 1) ELSE i
        p    == SkipSpace(1)
        neg  == p <= Len(s) /\ s[p] = "-"
        q    == IF p <= Len(s) /\ s[p] \in {"-", "+"} THEN p + 1 ELSE p
        run  == DigitRunFrom(s, q)
        v    == DigitsValue(SubSeq(s, q, q + run - 1))
    IN  IF run = 0 THEN [isNaN |-> TRUE, value |-> 0]
        ELSE [isNaN |-> FALSE, value |-> IF neg THEN 0 - v ELSE v]

(***************************************************************************)
(* utils/path.ts                                                           *)
(***************************************************************************)
\* String.prototype.replace(/[class]/g, by): every character of the class
ReplaceEach(s, class, by) == [i \in 1..Len(s) |-> IF s[i] \in class THEN by ELSE s[i]]

\* marks a character that a replacement removes
Removed == ""

\* String.prototype.replace(/[class]+/g, by): every maximal run of the class
\* becomes by, which is one character or Removed
ReplaceRuns(s, class, by) ==
    LET marked == [i \in 1..Len(s) |->
                     IF s[i] \notin class THEN s[i]
                     ELSE IF i < Len(s) /\ s[i + 1] \in class THEN Removed
                     ELSE by]
    IN  SelectSeq(marked, LAMBDA c : c # Removed)

\* String.prototype.replace(/^[class]+|[class]+$/g, '') and String.prototype.trim
TrimClass(s, class) ==
    LET lead  == Cardinality({i \in 1..Len(s) : \A j \in 1..i : s[j] \in class})
        trail == Cardinality({i \in 1..Len(s) : \A j \in i..Len(s) : s[j] \in class})
    IN  IF lead = Len(s) THEN <<>> ELSE SubSeq(s, lead + 1, Len(s) - trail)

SpaceChars == {" ", "\n", "\t"}

MaxSlugLen == 80

Untitled == <<"u", "n", "t", "i", "t", "l", "e", "d">>

sanitizeTitle(title) ==
    LET s1 == ReplaceEach(title, InvalidChars, "_")
        s2 == ReplaceRuns(s1, SpaceChars, "-")
        s3 == ReplaceRuns(s2, {"_"}, "_")
        s4 == ReplaceRuns(s3, {"-"}, "-")
        s5 == TrimClass(s4, {"-"})
        s6 == IF Len(s5) > MaxSlugLen THEN Take(s5, MaxSlugLen) ELSE s5
    IN  IF Len(s6) = 0 \/ Len(TrimClass(ReplaceRuns(s6, {"-", "_"}, Removed), SpaceChars)) = 0
        THEN Untitled
        ELSE s6

DotMd == <<".", "m", "d">>

generateIssueFilename(title, number) ==
    sanitizeTitle(title) \o <<".">> \o DigitsOf(number) \o DotMd

generateAchievedFilename(title) == sanitizeTitle(title) \o DotMd

\* length of the match of /\.(\d+)\.md$/ in filename, 0 when it does not match
IssueSuffixLen(filename) ==
    LET e   == Len(filename) - Len(DotMd)
        run == DigitRunBack(filename, e)
    IN  IF EndsWith(filename, DotMd) /\ run >= 1 /\ e - run >= 1 /\ filename[e - run] = "."
        THEN run + 1 + Len(DotMd)
        ELSE 0

isIssueFile(filename) == IssueSuffixLen(filename) > 0

\* the number of a filename; only meaningful when isIssueFile (null otherwise)
extractIssueNumber(filename) ==
    LET e == Len(filename) - Len(DotMd)
    IN  DigitsValue(SubSeq(filename, e - DigitRunBack(filename, e) + 1, e))

\* filename.replace(/\.\d+\.md$/, '')
StripIssueSuffix(filename) == SubSeq(filename, 1, Len(filename) - IssueSuffixLen(filename))

(***************************************************************************)
(* Directory layout.  A path is the character sequence path.join builds.   *)
(***************************************************************************)
IssuesDirName == <<"/", ".", "i", "s", "s", "u", "e", "s">>

getStashDir(base) == base \o IssuesDirName \o <<"/", "s", "t", "a", "s", "h">>

getDoingDir(base) == base \o IssuesDirName \o <<"/", "d", "o", "i", "n", "g">>

getAchievedDir(base) == base \o IssuesDirName \o <<"/", "a", "c", "h", "i", "e", "v", "e", "d">>

getSolutionPath(base) ==
    base \o IssuesDirName \o <<"/", "s", "o", "l", "u", "t", "i", "o", "n", ".", "m", "d">>

\* path.join(dir, filename)
PathJoin(dir, filename) == dir \o <<"/">> \o filename

(***************************************************************************)
(* core/types.ts                                                           *)
(***************************************************************************)
IssueType == {"feat", "todo", "bug", "refact"}

STASH == "stash"

DOING == "doing"

ACHIEVED == "achieved"

\* utils/validation.ts: the type itself when it is one of the four, else null
validateIssueType(type) == type \in IssueType

(***************************************************************************)
(* Frontmatter codec (FileManager.formatIssueFile / parseIssueFile).       *)
(* A file text is a sequence of tokens.                                    *)
(***************************************************************************)
NL == "\n"

Dashes == "---"

KeyCreateDate == "Create Date: "

KeyType == "Type: "

KeyIndex == "Index: "

\* yaml.stringify of the three metadata fields, one "key: value" line each
YamlStringify(metadata) ==
    <<KeyCreateDate, metadata.createDate, NL, KeyType, metadata.type, NL, KeyIndex>>
        \o DigitsOf(metadata.index) \o <<NL>>

formatIssueFile(metadata, content) ==
    <<Dashes, NL>> \o YamlStringify(metadata) \o <<Dashes, NL, NL>> \o content

\* the scalar that follows key in the yaml text, "undefined" when the key is absent
YamlGet(yamlText, key) ==
    LET i == IndexFrom(yamlText, <<key>>, 1)
    IN  IF i = 0 \/ i + 1 > Len(yamlText) THEN "undefined" ELSE yamlText[i + 1]

\* content.match(/^---\n([\s\S]*?)\n---\n([\s\S]*)$/)
parseIssueFile(text) ==
    LET close == IF MatchAt(text, <<Dashes, NL>>, 1)
                 THEN IndexFrom(text, <<NL, Dashes, NL>>, 3)
                 ELSE 0
    IN  IF close = 0
        THEN [metadata |-> <<>>, body |-> text]
        ELSE [metadata |-> SubSeq(text, 3, close - 1), body |-> Drop(text, close + 3)]

(***************************************************************************)
(* FileManager.normalizeTitleForSearch                                     *)
(***************************************************************************)
normalizeTitleForSearch(title) ==
    LET s1 == [i \in 1..Len(title) |-> ToLowerChar(title[i])]
        s2 == ReplaceRuns(s1, {"-", "_"}, " ")
        s3 == ReplaceRuns(s2, {c \in Range(s2) : ~IsAlnum(c) /\ ~IsSpace(c)}, " ")
        s4 == ReplaceRuns(s3, SpaceChars, " ")
    IN  TrimClass(s4, SpaceChars)

(***************************************************************************)
(* State.  A directory is a set of files [name, text, uid]; uid is a       *)
(* history field, invisible to the code, that names the create call the    *)
(* file descends from.  solution and agents are single files.              *)
(***************************************************************************)
VARIABLES
    basePath,   \* project root given to FileManager and the handlers
    stash,      \* files of .issues/stash
    doing,      \* files of .issues/doing
    achieved,   \* files of .issues/achieved
    solution,   \* .issues/solution.md
    agents,     \* AGENTS.md
    issued,     \* history: the numbers returned by successful create calls
    calls,      \* history: how many times AGENTS.md has been reconciled
    last,       \* history: the last completed operation and the disk before it
    creating,   \* the createIssue calls that have started, each at its position
    input       \* state of the Input component of the TUI

vars == <<basePath, stash, doing, achieved, solution, agents, issued, calls, last,
          creating, input>>

\* useState<number | null>(null): the value that stands for null
HistoryIndexNull == -1

\* Input.tsx: the useState initial values of the Input component; run is the
\* record of the Up and Down presses made in a row since navigation began
InputInitial ==
    [value |-> <<>>, showCompletion |-> FALSE, selectedIndex |-> 0, history |-> <<>>,
     historyIndex |-> HistoryIndexNull, historyDraft |-> <<>>, cursorIndex |-> 0,
     run |-> [active |-> FALSE, start |-> <<>>, ups |-> 0, downs |-> 0]]

NoFile == [exists |-> FALSE, text |-> <<>>]

FileOf(text) == [exists |-> TRUE, text |-> text]

Disk == [stash |-> stash, doing |-> doing, achieved |-> achieved,
         solution |-> solution, agents |-> agents]

\* fs.writeFile into a directory: a file of the same name is replaced
WriteInto(dir, file) == {f \in dir : f.name # file.name} \cup {file}

HasName(dir, name) == \E f \in dir : f.name = name

(***************************************************************************)
(* FileManager.getNextId                                                   *)
(***************************************************************************)
\* the numbers extractIssueNumber finds in the listing of a directory
NumbersIn(dir) == {extractIssueNumber(f.name) : f \in {g \in dir : isIssueFile(g.name)}}

SetMax(S, default) == IF S = {} THEN default ELSE CHOOSE m \in S : \A x \in S : x <= m

\* getNextId that forgets to scan the doing directory
getNextId_StashOnly(stashDir, doingDir) == SetMax(NumbersIn(stashDir) \cup {-1}, -1) + 1

getNextId(stashDir, doingDir) ==
    LET afterStash == SetMax(NumbersIn(stashDir) \cup {-1}, -1)
        afterDoing == SetMax(NumbersIn(doingDir) \cup {afterStash}, afterStash)
    IN  afterDoing + 1

(***************************************************************************)
(* FileManager.createIssue                                                 *)
(***************************************************************************)
\* utils/date.ts getCurrentDate(): the day the model runs in
Today == "2026-01-12"

createIssue(title, type, content, uid) ==
    LET id       == getNextId(stash, doing)
        filename == generateIssueFilename(title, id)
        metadata == [createDate |-> Today, type |-> type, index |-> id]
        file     == [name |-> filename, text |-> formatIssueFile(metadata, content), uid |-> uid]
    IN  [success |-> TRUE, number |-> id, filename |-> filename,
         stash |-> WriteInto(stash, file)]

(***************************************************************************)
(* FileManager.loadIssueFile and the three find operations.                *)
(* The order of fs.readdir is not fixed by the code, so a find operator    *)
(* yields the set of results some listing order produces.                  *)
(***************************************************************************)
NotFound(error) ==
    [found |-> FALSE, error |-> error, dir |-> "none", name |-> <<>>, uid |-> 0,
     issue |-> [title |-> <<>>, number |-> 0, type |-> "none", content |-> <<>>,
                createDate |-> "none", status |-> "none"]]

loadIssueFile(dirName, dirPath, file) ==
    LET filePath == PathJoin(dirPath, file.name)
        parsed   == parseIssueFile(file.text)
        number   == IF isIssueFile(file.name) THEN extractIssueNumber(file.name) ELSE 0
        title    == StripIssueSuffix(file.name)
        type     == YamlGet(parsed.metadata, KeyType)
    IN  IF ~validateIssueType(type)
        THEN NotFound("invalid-type")
        ELSE [found |-> TRUE, error |-> "none", dir |-> dirName, name |-> file.name,
              uid |-> file.uid,
              issue |-> [title |-> title, number |-> number, type |-> type,
                         content |-> parsed.body,
                         createDate |-> YamlGet(parsed.metadata, KeyCreateDate),
                         status |-> IF Includes(filePath, <<"d", "o", "i", "n", "g">>)
                                    THEN DOING ELSE STASH]]

\* scan stash, then doing; the first matching file is loaded and returned
ScanBoth(inStash, inDoing) ==
    IF inStash # {}
    THEN {loadIssueFile(STASH, getStashDir(basePath), f) : f \in inStash}
    ELSE IF inDoing # {}
    THEN {loadIssueFile(DOING, getDoingDir(basePath), f) : f \in inDoing}
    ELSE {NotFound("not-found")}

\* fileNumber === number
NumberMatches(name, number) == isIssueFile(name) /\ extractIssueNumber(name) = number

findIssueByNumber(number) ==
    ScanBoth({f \in stash : NumberMatches(f.name, number)},
             {f \in doing : NumberMatches(f.name, number)})

\* bidirectional containment of the normalized file title and the normalized query
TitleMatches(name, searchNormalized) ==
    /\ isIssueFile(name)
    /\ LET fileNormalized == normalizeTitleForSearch(StripIssueSuffix(name))
       IN  \/ Includes(fileNormalized, searchNormalized)
           \/ Includes(searchNormalized, fileNormalized)

findIssueByTitle(title) ==
    LET searchNormalized == normalizeTitleForSearch(title)
    IN  IF Len(searchNormalized) = 0 THEN {NotFound("not-found")}
        ELSE ScanBoth({f \in stash : TitleMatches(f.name, searchNormalized)},
                      {f \in doing : TitleMatches(f.name, searchNormalized)})

findIssue(identifier) ==
    LET number == ParseInt(identifier)
    IN  IF ~number.isNaN THEN findIssueByNumber(number.value) ELSE findIssueByTitle(identifier)

(***************************************************************************)
(* FileManager.openIssue, applied to the result r of findIssue.            *)
(***************************************************************************)
SolutionHeader(issue) ==
    <<"# Solution for Issue #">> \o DigitsOf(issue.number) \o <<": ">> \o issue.title
        \o <<NL, NL>>

\* openIssue that copies the file into doing and leaves the stash file behind
openIssue_Copy(r) ==
    LET issue   == r.issue
        same    == [success |-> FALSE, error |-> r.error, stash |-> stash, doing |-> doing,
                    solution |-> solution]
        oldName == generateIssueFilename(issue.title, issue.number)
        moved   == CHOOSE f \in stash : f.name = oldName
    IN  IF ~r.found THEN same
        ELSE IF issue.status = DOING THEN [same EXCEPT !.error = "already-in-progress"]
        ELSE IF ~HasName(stash, oldName) THEN [same EXCEPT !.error = "io"]
        ELSE [success |-> TRUE, error |-> "none",
              stash |-> stash,
              doing |-> WriteInto(doing, moved),
              solution |-> FileOf(SolutionHeader(issue))]

\* openIssue that writes the doing file anew from the parsed issue
openIssue_Rewrite(r) ==
    LET issue    == r.issue
        same     == [success |-> FALSE, error |-> r.error, stash |-> stash, doing |-> doing,
                     solution |-> solution]
        oldName  == generateIssueFilename(issue.title, issue.number)
        moved    == CHOOSE f \in stash : f.name = oldName
        metadata == [createDate |-> issue.createDate, type |-> issue.type,
                     index |-> issue.number]
    IN  IF ~r.found THEN same
        ELSE IF issue.status = DOING THEN [same EXCEPT !.error = "already-in-progress"]
        ELSE IF ~HasName(stash, oldName) THEN [same EXCEPT !.error = "io"]
        ELSE [success |-> TRUE, error |-> "none",
              stash |-> stash \ {moved},
              doing |-> WriteInto(doing, [moved EXCEPT
                                             !.text = formatIssueFile(metadata, issue.content)]),
              solution |-> FileOf(SolutionHeader(issue))]

\* openIssue that writes the solution file before it looks at the search result
openIssue_SolutionFirst(r) ==
    LET issue   == r.issue
        header  == FileOf(SolutionHeader(issue))
        same    == [success |-> FALSE, error |-> r.error, stash |-> stash, doing |-> doing,
                    solution |-> header]
        oldName == generateIssueFilename(issue.title, issue.number)
        moved   == CHOOSE f \in stash : f.name = oldName
    IN  IF ~r.found THEN same
        ELSE IF issue.status = DOING THEN [same EXCEPT !.error = "already-in-progress"]
        ELSE IF ~HasName(stash, oldName) THEN [same EXCEPT !.error = "io"]
        ELSE [success |-> TRUE, error |-> "none",
              stash |-> stash \ {moved},
              doing |-> WriteInto(doing, moved),
              solution |-> header]

\* openIssue without the check of the issue's status
openIssue_NoStageCheck(r) ==
    LET issue   == r.issue
        same    == [success |-> FALSE, error |-> r.error, stash |-> stash, doing |-> doing,
                    solution |-> solution]
        oldName == generateIssueFilename(issue.title, issue.number)
        moved   == CHOOSE f \in stash : f.name = oldName
    IN  IF ~r.found THEN same
        ELSE IF ~HasName(stash, oldName) THEN [same EXCEPT !.error = "io"]
        ELSE [success |-> TRUE, error |-> "none",
              stash |-> stash \ {moved},
              doing |-> WriteInto(doing, moved),
              solution |-> FileOf(SolutionHeader(issue))]

openIssue(r) ==
    LET issue   == r.issue
        same    == [success |-> FALSE, error |-> r.error, stash |-> stash, doing |-> doing,
                    solution |-> solution]
        oldName == generateIssueFilename(issue.title, issue.number)
        \* issue.status is STASH here, so oldPath lies in the stash directory
        moved   == CHOOSE f \in stash : f.name = oldName
    IN  IF ~r.found THEN same
        ELSE IF issue.status = DOING THEN [same EXCEPT !.error = "already-in-progress"]
        ELSE IF ~HasName(stash, oldName) THEN [same EXCEPT !.error = "io"]
        ELSE [success |-> TRUE, error |-> "none",
              stash |-> stash \ {moved},
              doing |-> WriteInto(doing, moved),
              solution |-> FileOf(SolutionHeader(issue))]

(***************************************************************************)
(* FileManager.closeIssue, applied to the result r of findIssue.           *)
(***************************************************************************)
SolutionSection == <<NL, NL, Dashes, NL, NL, "## Solution", NL, NL>>

\* closeIssue that leaves solution.md in place
closeIssue_KeepSolution(r) ==
    LET issue    == r.issue
        same     == [success |-> FALSE, error |-> r.error, doing |-> doing,
                     achieved |-> achieved, solution |-> solution]
        oldName  == generateIssueFilename(issue.title, issue.number)
        newName  == generateAchievedFilename(issue.title)
        combined == issue.content \o SolutionSection \o solution.text
        written  == WriteInto(achieved, [name |-> newName, text |-> combined, uid |-> r.uid])
    IN  IF ~r.found THEN same
        ELSE IF ~solution.exists THEN [same EXCEPT !.error = "solution-missing"]
        ELSE IF ~HasName(doing, oldName) THEN [same EXCEPT !.error = "io", !.achieved = written]
        ELSE [success |-> TRUE, error |-> "none",
              doing |-> {f \in doing : f.name # oldName},
              achieved |-> written,
              solution |-> solution]

\* closeIssue that does not require solution.md and archives an empty solution
closeIssue_NoGate(r) ==
    LET issue    == r.issue
        same     == [success |-> FALSE, error |-> r.error, doing |-> doing,
                     achieved |-> achieved, solution |-> solution]
        oldName  == generateIssueFilename(issue.title, issue.number)
        newName  == generateAchievedFilename(issue.title)
        combined == issue.content \o SolutionSection \o solution.text
        written  == WriteInto(achieved, [name |-> newName, text |-> combined, uid |-> r.uid])
    IN  IF ~r.found THEN same
        ELSE IF ~HasName(doing, oldName) THEN [same EXCEPT !.error = "io", !.achieved = written]
        ELSE [success |-> TRUE, error |-> "none",
              doing |-> {f \in doing : f.name # oldName},
              achieved |-> written,
              solution |-> NoFile]

closeIssue(r) ==
    LET issue    == r.issue
        same     == [success |-> FALSE, error |-> r.error, doing |-> doing,
                     achieved |-> achieved, solution |-> solution]
        oldName  == generateIssueFilename(issue.title, issue.number)
        newName  == generateAchievedFilename(issue.title)
        combined == issue.content \o SolutionSection \o solution.text
        written  == WriteInto(achieved, [name |-> newName, text |-> combined, uid |-> r.uid])
    IN  IF ~r.found THEN same
        ELSE IF ~solution.exists THEN [same EXCEPT !.error = "solution-missing"]
        \* fs.unlink(oldPath) throws after the archive file has been written
        ELSE IF ~HasName(doing, oldName) THEN [same EXCEPT !.error = "io", !.achieved = written]
        ELSE [success |-> TRUE, error |-> "none",
              doing |-> {f \in doing : f.name # oldName},
              achieved |-> written,
              solution |-> NoFile]

(***************************************************************************)
(* AGENTS.md reconciliation (updateAgentsFile / cleanupAgentsFile).        *)
(***************************************************************************)
ISSUE_MAKE_START == "<!-- ISSUE-MAKE:START -->"

ISSUE_MAKE_END == "<!-- ISSUE-MAKE:END -->"

\* new Date(createDateStr) interpolated into the template
DateString(createDate) == <<"Date ", createDate>>

taskContent(issue, solutionPath) ==
    <<NL, ISSUE_MAKE_START, NL, "## Task: ">> \o issue.title
        \o <<NL, NL, "**Issue ID:** ">> \o DigitsOf(issue.number)
        \o <<NL, "**Type:** ", issue.type, NL, "**Created:** ">> \o DateString(issue.createDate)
        \o <<NL, NL, "### Description", NL>>
        \o issue.content
        \o <<NL, NL, "### Instructions", NL,
             "- Work on this issue and implement the solution", NL,
             "- Document your progress in ">> \o solutionPath
        \o <<NL, "- When complete, use issue-make close ">> \o DigitsOf(issue.number)
        \o <<" to archive", NL, NL, ISSUE_MAKE_END, NL>>

\* text.replace(/<!-- ISSUE-MAKE:START -->[\s\S]*?<!-- ISSUE-MAKE:END -->\n?/g, '')
RECURSIVE StripBlocks(_)
StripBlocks(text) ==
    LET s == IndexFrom(text, <<ISSUE_MAKE_START>>, 1)
        e == IF s = 0 THEN 0 ELSE IndexFrom(text, <<ISSUE_MAKE_END>>, s + 1)
        after == IF e < Len(text) /\ text[e + 1] = NL THEN e + 2 ELSE e + 1
    IN  IF s = 0 \/ e = 0 THEN text
        ELSE SubSeq(text, 1, s - 1) \o StripBlocks(Drop(text, after))

DefaultAgents ==
    <<"# AGENTS.md", NL, NL, "This file contains tasks for AI agents.", NL, NL>>

\* the AGENTS.md file updateAgentsFile leaves
updateAgentsFile(file, issue) ==
    LET agentsContent  == IF file.exists THEN file.text ELSE DefaultAgents
        cleanedContent == StripBlocks(agentsContent)
    IN  [success |-> TRUE,
         file |-> FileOf(cleanedContent \o taskContent(issue, getSolutionPath(basePath)))]

\* cleanupAgentsFile that treats a missing AGENTS.md as the default document
cleanupAgentsFile_DefaultIfMissing(file) ==
    LET agentsContent == IF file.exists THEN file.text ELSE DefaultAgents
    IN  [success |-> TRUE, file |-> FileOf(StripBlocks(agentsContent))]

\* the AGENTS.md file cleanupAgentsFile leaves; reading a missing file throws
cleanupAgentsFile(file) ==
    IF ~file.exists THEN [success |-> FALSE, file |-> file]
    ELSE [success |-> TRUE, file |-> FileOf(StripBlocks(file.text))]

(***************************************************************************)
(* Inputs of the model.                                                    *)
(***************************************************************************)
BasePaths == {<<"/", "w">>, <<"/", "d", "o", "i", "n", "g">>}

TitleFix == <<"F", "i", "x", " ", "b", "u", "g">>

TitleUndoing == <<"u", "n", "d", "o", "i", "n", "g">>

\* one character longer than the slug limit, with a space at the limit
TitleLong == [i \in 1..(MaxSlugLen - 1) |-> "a"] \o <<" ", "b">>

ContentPlain == <<"x">>

ContentMarkers == <<ISSUE_MAKE_END, NL, ISSUE_MAKE_START>>

CreateInputs ==
    {[title |-> TitleFix, type |-> "feat", content |-> ContentPlain],
     [title |-> TitleFix, type |-> "bug", content |-> ContentMarkers],
     [title |-> TitleUndoing, type |-> "todo", content |-> ContentPlain],
     [title |-> TitleLong, type |-> "refact", content |-> ContentPlain]}

Identifiers == {DigitsOf(n) : n \in 0..MaxCreates} \cup {<<"f", "i", "x">>}

InitialAgents ==
    {NoFile,
     FileOf(<<"notes", NL, ISSUE_MAKE_START, NL, "old", NL, ISSUE_MAKE_END, NL, "more", NL>>)}

NoResult == NotFound("none")

\* the order in which fs.readdir listed the two directories, where recorded
NoListing == [stash |-> <<>>, doing |-> <<>>]

\* the record of a completed operation: what was asked, what find resolved,
\* what was reported, and the disk before the operation
Completed(op, identifier, r, success, error, filename) ==
    [op |-> op, ident |-> identifier, found |-> r, success |-> success, error |-> error,
     filename |-> filename, fault |-> "none", listing |-> NoListing, pre |-> Disk]

Init ==
    /\ basePath \in BasePaths
    /\ stash = {}
    /\ doing = {}
    /\ achieved = {}
    /\ solution = NoFile
    /\ agents \in InitialAgents
    /\ issued = <<>>
    /\ calls = 0
    /\ creating = <<>>
    /\ input = InputInitial
    /\ last = Completed("none", <<>>, NoResult, FALSE, "none", <<>>)

(***************************************************************************)
(* Operations.                                                             *)
(***************************************************************************)
\* FileManager.createIssue(title, type, content)
Create(in) ==
    /\ Len(issued) < MaxCreates
    /\ LET c == createIssue(in.title, in.type, in.content, Len(issued) + 1)
       IN  /\ stash' = c.stash
           /\ issued' = Append(issued, c.number)
           /\ last' = Completed("create", <<>>, NoResult, c.success, "none", c.filename)
    /\ UNCHANGED <<creating, input, basePath, doing, achieved, solution, agents, calls>>

\* a handler rejects an empty or blank identifier before it touches the store
BlankIdentifier(identifier) == Len(TrimClass(identifier, SpaceChars)) = 0

\* openCommandHandler(identifier, basePath)
OpenCommand(identifier) ==
    IF BlankIdentifier(identifier)
    THEN /\ last' = Completed("open", identifier, NoResult, FALSE, "no-identifier", <<>>)
         /\ UNCHANGED <<creating, input, basePath, stash, doing, achieved, solution, agents, issued, calls>>
    ELSE \E r \in findIssue(identifier) :
        LET o == openIssue(r)
            u == IF o.success THEN updateAgentsFile(agents, r.issue)
                 ELSE [success |-> TRUE, file |-> agents]
        IN  /\ stash' = o.stash
            /\ doing' = o.doing
            /\ solution' = o.solution
            /\ agents' = u.file
            /\ calls' = IF o.success THEN calls + 1 ELSE calls
            /\ last' = Completed("open", identifier, r, o.success /\ u.success,
                                 IF o.success /\ ~u.success THEN "agents" ELSE o.error, <<>>)
            /\ UNCHANGED <<creating, input, basePath, achieved, issued>>

\* closeCommandHandler(identifier, basePath)
CloseCommand(identifier) ==
    IF BlankIdentifier(identifier)
    THEN /\ last' = Completed("close", identifier, NoResult, FALSE, "no-identifier", <<>>)
         /\ UNCHANGED <<creating, input, basePath, stash, doing, achieved, solution, agents, issued, calls>>
    ELSE \E r \in findIssue(identifier) :
        LET c == closeIssue(r)
            u == IF c.success THEN cleanupAgentsFile(agents)
                 ELSE [success |-> TRUE, file |-> agents]
        IN  /\ doing' = c.doing
            /\ achieved' = c.achieved
            /\ solution' = c.solution
            /\ agents' = u.file
            /\ calls' = IF c.success THEN calls + 1 ELSE calls
            /\ last' = Completed("close", identifier, r, c.success /\ u.success,
                                 IF c.success /\ ~u.success THEN "agents" ELSE c.error, <<>>)
            /\ UNCHANGED <<creating, input, basePath, stash, issued>>

Next ==
    \/ \E in \in CreateInputs : Create(in)
    \/ \E identifier \in Identifiers : OpenCommand(identifier)
    \/ \E identifier \in Identifiers : CloseCommand(identifier)

Spec == Init /\ [][Next]_vars

(***************************************************************************)
(* The reconciler on its own: updateAgentsFile and cleanupAgentsFile       *)
(* applied, in any order, to an AGENTS.md of any of the initial shapes.    *)
(***************************************************************************)
MaxCalls == 3

\* issues as loadIssueFile returns them for files createIssue wrote
PublishedIssues ==
    {[title |-> sanitizeTitle(in.title), number |-> n, type |-> in.type,
      content |-> <<NL>> \o in.content, createDate |-> Today, status |-> STASH] :
        in \in CreateInputs, n \in 0..(MaxCreates - 1)}

Publish(issue) ==
    /\ calls < MaxCalls
    /\ LET u == updateAgentsFile(agents, issue)
       IN  /\ agents' = u.file
           /\ last' = Completed("publish", <<>>,
                                [NoResult EXCEPT !.found = TRUE, !.issue = issue],
                                u.success, IF u.success THEN "none" ELSE "agents", <<>>)
    /\ calls' = calls + 1
    /\ UNCHANGED <<creating, input, basePath, stash, doing, achieved, solution, issued>>

Retract ==
    /\ calls < MaxCalls
    /\ LET u == cleanupAgentsFile(agents)
       IN  /\ agents' = u.file
           /\ last' = Completed("retract", <<>>, NoResult, u.success,
                                IF u.success THEN "none" ELSE "agents", <<>>)
    /\ calls' = calls + 1
    /\ UNCHANGED <<creating, input, basePath, stash, doing, achieved, solution, issued>>

NextBrief ==
    \/ \E issue \in PublishedIssues : Publish(issue)
    \/ Retract

SpecBrief == Init /\ [][NextBrief]_vars

(***************************************************************************)
(* The handlers with one failing file-system call.  The fault names the    *)
(* call that throws; every call before it has taken effect and no call     *)
(* after it runs.                                                          *)
(***************************************************************************)
MaxFaultCreates == 1

OpenFaults == {"none", "rename", "writeAgents"}

CloseFaults == {"none", "readSolution", "writeAchieved", "unlinkDoing", "unlinkSolution"}

\* openIssue whose fs.rename throws: the catch block returns the failure
openIssueFailing(r, fault) ==
    LET o == openIssue(r)
    IN  IF o.success /\ fault = "rename"
        THEN [success |-> FALSE, error |-> "io", stash |-> stash, doing |-> doing,
              solution |-> solution]
        ELSE o

\* updateAgentsFile whose fs.writeFile throws: the catch block returns the failure
updateAgentsFileFailing(file, issue, fault) ==
    IF fault = "writeAgents" THEN [success |-> FALSE, file |-> file]
    ELSE updateAgentsFile(file, issue)

\* an open handler that reports the result of openIssue alone
openCommandResult_IgnoreBrief(o, u) ==
    [success |-> o.success, error |-> o.error]

\* what openCommandHandler returns for the results of openIssue and updateAgentsFile
openCommandResult(o, u) ==
    IF ~o.success THEN [success |-> FALSE, error |-> o.error]
    ELSE IF ~u.success THEN [success |-> FALSE, error |-> "agents"]
    ELSE [success |-> TRUE, error |-> "none"]

\* closeIssue with the steps after the solution check taken one by one
closeIssueFailing(r, fault) ==
    LET issue    == r.issue
        same     == [success |-> FALSE, error |-> r.error, doing |-> doing,
                     achieved |-> achieved, solution |-> solution]
        oldName  == generateIssueFilename(issue.title, issue.number)
        newName  == generateAchievedFilename(issue.title)
        combined == issue.content \o SolutionSection \o solution.text
        written  == WriteInto(achieved, [name |-> newName, text |-> combined, uid |-> r.uid])
        removed  == {f \in doing : f.name # oldName}
    IN  IF ~r.found THEN same
        ELSE IF ~solution.exists THEN [same EXCEPT !.error = "solution-missing"]
        ELSE IF fault \in {"readSolution", "writeAchieved"} THEN [same EXCEPT !.error = "io"]
        ELSE IF fault = "unlinkDoing" \/ ~HasName(doing, oldName)
        THEN [same EXCEPT !.error = "io", !.achieved = written]
        ELSE IF fault = "unlinkSolution"
        THEN [same EXCEPT !.error = "io", !.achieved = written, !.doing = removed]
        ELSE [success |-> TRUE, error |-> "none", doing |-> removed, achieved |-> written,
              solution |-> NoFile]

\* the numbers createIssue can have given out
FaultIdentifiers == {DigitsOf(n) : n \in 0..(MaxFaultCreates - 1)}

CreateFirst(in) == Len(issued) < MaxFaultCreates /\ Create(in)

OpenCommandFailing(identifier, fault) ==
    \E r \in findIssue(identifier) :
        LET o   == openIssueFailing(r, fault)
            u   == IF o.success THEN updateAgentsFileFailing(agents, r.issue, fault)
                   ELSE [success |-> TRUE, file |-> agents]
            res == openCommandResult(o, u)
        IN  /\ stash' = o.stash
            /\ doing' = o.doing
            /\ solution' = o.solution
            /\ agents' = u.file
            /\ calls' = IF o.success THEN calls + 1 ELSE calls
            /\ last' = [Completed("open", identifier, r, res.success, res.error, <<>>)
                            EXCEPT !.fault = fault]
            /\ UNCHANGED <<creating, input, basePath, achieved, issued>>

CloseCommandFailing(identifier, fault) ==
    \E r \in findIssue(identifier) :
        LET c == closeIssueFailing(r, fault)
            u == IF c.success THEN cleanupAgentsFile(agents)
                 ELSE [success |-> TRUE, file |-> agents]
        IN  /\ doing' = c.doing
            /\ achieved' = c.achieved
            /\ solution' = c.solution
            /\ agents' = u.file
            /\ calls' = IF c.success THEN calls + 1 ELSE calls
            /\ last' = [Completed("close", identifier, r, c.success /\ u.success,
                                  IF c.success /\ ~u.success THEN "agents" ELSE c.error, <<>>)
                            EXCEPT !.fault = fault]
            /\ UNCHANGED <<creating, input, basePath, stash, issued>>

NextFault ==
    \/ \E in \in CreateInputs : CreateFirst(in)
    \/ \E identifier \in FaultIdentifiers, fault \in OpenFaults :
          OpenCommandFailing(identifier, fault)
    \/ \E identifier \in FaultIdentifiers, fault \in CloseFaults :
          CloseCommandFailing(identifier, fault)

SpecFault == Init /\ [][NextFault]_vars

(***************************************************************************)
(* The life of an issue's content: createIssue writes it, findIssue reads  *)
(* it back, the agent writes solution.md, closeIssue archives both.  The   *)
(* history field uid of a file holds the arguments of the create call.     *)
(***************************************************************************)
MaxContentCreates == 1

ContentBodies ==
    {ContentPlain,
     <<>>,
     <<NL, "x">>,
     <<"x", NL, Dashes, NL, "y">>,
     <<"see ", ISSUE_MAKE_END>>}

ContentInputs ==
    {[title |-> TitleFix, type |-> type, content |-> content] :
        type \in {"feat"}, content \in ContentBodies}

ContentIdentifiers ==
    {DigitsOf(n) : n \in 0..(MaxContentCreates - 1)} \cup {<<"f", "i", "x">>}

\* identifiers that begin with a digit, carry a sign or a leading blank
FindIdentifiers ==
    ContentIdentifiers
        \cup {<<"0", "x">>, <<"-", "0">>, <<" ", "0">>, <<"x", "0">>}

\* utils/validation.ts isNumberIdentifier: /^\d+$/
isNumberIdentifier(identifier) ==
    Len(identifier) > 0 /\ \A i \in 1..Len(identifier) : IsDigit(identifier[i])

\* what the agent leaves in solution.md
SolutionTexts == {<<"done">>, <<"# Notes", NL, NL, Dashes, NL, "done", NL>>}

CreateIssue(in) ==
    /\ Len(issued) < MaxContentCreates
    /\ LET call == [call |-> Len(issued) + 1, title |-> in.title, type |-> in.type,
                    content |-> in.content]
           c    == createIssue(in.title, in.type, in.content, call)
       IN  /\ stash' = c.stash
           /\ issued' = Append(issued, c.number)
           /\ last' = Completed("create", <<>>, NoResult, c.success, "none", c.filename)
    /\ UNCHANGED <<creating, input, basePath, doing, achieved, solution, agents, calls>>

\* FileManager.findIssue(identifier)
FindIssue(identifier) ==
    /\ \E r \in findIssue(identifier) :
          last' = Completed("find", identifier, r, r.found, r.error, <<>>)
    /\ UNCHANGED <<creating, input, basePath, stash, doing, achieved, solution, agents, issued, calls>>

\* the agent replaces the text of solution.md
WriteSolution(text) ==
    /\ solution.exists
    /\ solution.text # text
    /\ solution' = FileOf(text)
    /\ last' = Completed("solution", <<>>, NoResult, TRUE, "none", <<>>)
    /\ UNCHANGED <<creating, input, basePath, stash, doing, achieved, agents, issued, calls>>

NextContent ==
    \/ \E in \in ContentInputs : CreateIssue(in)
    \/ \E identifier \in FindIdentifiers : FindIssue(identifier)
    \/ \E identifier \in ContentIdentifiers : OpenCommand(identifier)
    \/ \E text \in SolutionTexts : WriteSolution(text)
    \/ \E identifier \in ContentIdentifiers : CloseCommand(identifier)

SpecContent == Init /\ [][NextContent]_vars

(***************************************************************************)
(* getNextId on its own, over directory listings of any shape: numbers     *)
(* with gaps, a file without a number, and a stash or doing directory that *)
(* does not exist yet, so that fs.readdir throws.                          *)
(***************************************************************************)
MaxId == 3

IdNumbers == (0..MaxId) \cup {12}

IdFiles ==
    {[name |-> generateIssueFilename(<<"a">>, n), text |-> <<>>, uid |-> 0] : n \in IdNumbers}
        \cup {[name |-> <<"n", "o", "t", "e", "s", ".", "m", "d">>, text |-> <<>>, uid |-> 0]}

ReaddirFaults == {"none", "readdirStash", "readdirDoing", "readdirBoth"}

\* getNextId that returns the first number no file carries
getNextIdReading_FirstFree(stashDir, doingDir, fault) ==
    LET used == NumbersIn(stashDir) \cup NumbersIn(doingDir)
    IN  [success |-> TRUE,
         id |-> CHOOSE n \in 0..(Cardinality(used)) :
                    n \notin used /\ \A m \in 0..(n - 1) : m \in used]

\* getNextId with the two try blocks: a readdir that throws leaves maxId as it is
getNextIdReading(stashDir, doingDir, fault) ==
    LET afterStash == IF fault \in {"readdirStash", "readdirBoth"} THEN -1
                      ELSE SetMax(NumbersIn(stashDir) \cup {-1}, -1)
        afterDoing == IF fault \in {"readdirDoing", "readdirBoth"} THEN afterStash
                      ELSE SetMax(NumbersIn(doingDir) \cup {afterStash}, afterStash)
    IN  [success |-> TRUE, id |-> afterDoing + 1]

InitIds ==
    /\ basePath \in BasePaths
    /\ stash \in SUBSET IdFiles
    /\ doing \in SUBSET IdFiles
    /\ NumbersIn(stash) \cap NumbersIn(doing) = {}
    /\ achieved = {}
    /\ solution = NoFile
    /\ agents = NoFile
    /\ issued = <<>>
    /\ calls = 0
    /\ creating = <<>>
    /\ input = InputInitial
    /\ last = Completed("none", <<>>, NoResult, FALSE, "none", <<>>)

\* FileManager.getNextId(); a directory that does not exist holds no file
GetNextId(fault) ==
    /\ fault \in {"readdirStash", "readdirBoth"} => stash = {}
    /\ fault \in {"readdirDoing", "readdirBoth"} => doing = {}
    /\ LET n == getNextIdReading(stash, doing, fault)
       IN  last' = [Completed("nextId", <<>>, [NoResult EXCEPT !.issue.number = n.id],
                              n.success, "none", <<>>) EXCEPT !.fault = fault]
    /\ UNCHANGED <<creating, input, basePath, stash, doing, achieved, solution, agents, issued, calls>>

NextIds == \E fault \in ReaddirFaults : GetNextId(fault)

SpecIds == InitIds /\ [][NextIds]_vars

(***************************************************************************)
(* Titles of every shape: createIssue turns a title into a file name with  *)
(* sanitizeTitle, and findIssueByTitle matches a query against the names.  *)
(***************************************************************************)
MaxTitleLen == 2

MaxTitleCreates == 1

TitleAlphabet == {"a", "B", ".", "-", "_", "?", " "}

\* the titles of at most MaxTitleLen characters, the empty one included
Titles == UNION {[1..n -> TitleAlphabet] : n \in 0..MaxTitleLen}

TitleQueries == {<<"n", "o">>, <<"a">>, <<"b", " ", "a">>, <<"?">>}

CreateTitled(title) ==
    /\ Len(issued) < MaxTitleCreates
    /\ LET c == createIssue(title, "feat", ContentPlain, Len(issued) + 1)
       IN  /\ stash' = c.stash
           /\ issued' = Append(issued, c.number)
           /\ last' = Completed("create", title, NoResult, c.success, "none", c.filename)
    /\ UNCHANGED <<creating, input, basePath, doing, achieved, solution, agents, calls>>

\* FileManager.findIssueByTitle(title)
FindIssueByTitle(title) ==
    /\ \E r \in findIssueByTitle(title) :
          last' = Completed("findByTitle", title, r, r.found, r.error, <<>>)
    /\ UNCHANGED <<creating, input, basePath, stash, doing, achieved, solution, agents, issued, calls>>

NextTitles ==
    \/ \E title \in Titles : CreateTitled(title)
    \/ \E title \in TitleQueries : FindIssueByTitle(title)

SpecTitles == Init /\ [][NextTitles]_vars

(***************************************************************************)
(* The file-name codec on its own: generateIssueFilename and               *)
(* generateAchievedFilename applied to a title and a number, the result    *)
(* read back with isIssueFile and extractIssueNumber.                      *)
(***************************************************************************)
NameAlphabet == TitleAlphabet \cup {"1"}

NameTitles == UNION {[1..n -> NameAlphabet] : n \in 0..MaxTitleLen}

InitNames ==
    /\ basePath \in BasePaths
    /\ stash = {}
    /\ doing = {}
    /\ achieved = {}
    /\ solution = NoFile
    /\ agents = NoFile
    /\ issued = <<>>
    /\ calls = 0
    /\ creating = <<>>
    /\ input = InputInitial
    /\ \E title \in NameTitles, number \in IdNumbers :
          last = Completed("none", title, [NoResult EXCEPT !.issue.number = number],
                           FALSE, "none", <<>>)

\* generateIssueFilename(title, number)
GenerateIssueFilename ==
    /\ last.op = "none"
    /\ last' = Completed("issueFilename", last.ident, last.found, TRUE, "none",
                         generateIssueFilename(last.ident, last.found.issue.number))
    /\ UNCHANGED <<creating, input, basePath, stash, doing, achieved, solution, agents, issued, calls>>

\* generateAchievedFilename(title)
GenerateAchievedFilename ==
    /\ last.op = "none"
    /\ last' = Completed("achievedFilename", last.ident, last.found, TRUE, "none",
                         generateAchievedFilename(last.ident))
    /\ UNCHANGED <<creating, input, basePath, stash, doing, achieved, solution, agents, issued, calls>>

NextNames == GenerateIssueFilename \/ GenerateAchievedFilename

SpecNames == InitNames /\ [][NextNames]_vars

(***************************************************************************)
(* addCommandHandler: the title comes from the AI service when that is     *)
(* configured and answers, and from the clock otherwise.                   *)
(***************************************************************************)
MaxAdds == 1

Descriptions == {<<>>, <<" ", NL>>, <<"x">>, <<" ", "x", NL>>}

\* what the configuration and AIService.generateTitle can do
TitleOutcomes == {"title", "emptyTitle", "unconfigured", "failure", "throws"}

\* utils/date.ts getTimestamp(): Date.now().toString()
Timestamps == {<<"1", "7">>, <<"1", "8">>}

FallbackPrefix == <<"I", "s", "s", "u", "e", "-">>

\* a title step that lets the exception of the AI service escape
generateTitleOrFallback_Rethrow(outcome, timestamp) ==
    IF outcome = "title" THEN [threw |-> FALSE, title |-> TitleFix]
    ELSE IF outcome = "throws" THEN [threw |-> TRUE, title |-> <<>>]
    ELSE [threw |-> FALSE, title |-> FallbackPrefix \o timestamp]

\* the try block of addCommandHandler that picks the title
generateTitleOrFallback(outcome, timestamp) ==
    IF outcome = "title" THEN [threw |-> FALSE, title |-> TitleFix]
    ELSE [threw |-> FALSE, title |-> FallbackPrefix \o timestamp]

\* addCommandHandler(type, description, basePath)
AddCommand(type, description, outcome, timestamp) ==
    LET given == [NoResult EXCEPT !.issue.content = description, !.issue.type = type]
        t     == generateTitleOrFallback(outcome, timestamp)
        c     == createIssue(t.title, type, description, Len(issued) + 1)
    IN  /\ Len(issued) < MaxAdds
        /\ IF Len(TrimClass(description, SpaceChars)) = 0 \/ t.threw
           THEN /\ last' = [Completed("add", <<>>, given, FALSE,
                                      IF t.threw THEN "threw" ELSE "empty-description", <<>>)
                                EXCEPT !.fault = outcome]
                /\ UNCHANGED <<creating, input, stash, issued>>
           ELSE /\ stash' = c.stash
                /\ issued' = Append(issued, c.number)
                /\ last' = [Completed("add", t.title, given, c.success, "none", c.filename)
                                EXCEPT !.fault = outcome]
        /\ UNCHANGED <<creating, input, basePath, doing, achieved, solution, agents, calls>>

NextAdd ==
    \E type \in IssueType, description \in Descriptions, outcome \in TitleOutcomes,
       timestamp \in Timestamps : AddCommand(type, description, outcome, timestamp)

SpecAdd == Init /\ [][NextAdd]_vars

(***************************************************************************)
(* The find operations with the listing order of fs.readdir made explicit: *)
(* each directory is listed as a sequence of its files, in any order, and  *)
(* the loops of findIssueByNumber and findIssueByTitle walk the sequence.  *)
(***************************************************************************)
MaxFindCreates == 2

FindInputs ==
    {[title |-> TitleFix, type |-> "feat", content |-> ContentPlain],
     [title |-> TitleFix, type |-> "bug", content |-> ContentPlain],
     [title |-> TitleUndoing, type |-> "todo", content |-> ContentPlain]}

ListedIdentifiers ==
    {DigitsOf(n) : n \in 0..(MaxFindCreates - 1)} \cup {<<"f", "i", "x">>, <<"u", "g">>}

\* the orders fs.readdir can list a directory in
Listings(dir) == {l \in [1..Cardinality(dir) -> dir] : Range(l) = dir}

\* index of the first file of the listing that is in matching, 0 if none
FirstMatch(listing, matching) ==
    LET hits == {i \in 1..Len(listing) : listing[i] \in matching}
    IN  IF hits = {} THEN 0 ELSE CHOOSE i \in hits : \A j \in hits : i <= j

\* the two loops of a find operation, passing over files loadIssueFile rejects
scanListings_SkipInvalid(stashFiles, doingFiles, inStash, inDoing) ==
    LET valid(file) == loadIssueFile(STASH, getStashDir(basePath), file).found
        i == FirstMatch(stashFiles, {f \in inStash : valid(f)})
        j == FirstMatch(doingFiles, {f \in inDoing : valid(f)})
    IN  IF i # 0 THEN loadIssueFile(STASH, getStashDir(basePath), stashFiles[i])
        ELSE IF j # 0 THEN loadIssueFile(DOING, getDoingDir(basePath), doingFiles[j])
        ELSE NotFound("not-found")

\* the two loops of a find operation, with the doing directory scanned first
scanListings_DoingFirst(stashFiles, doingFiles, inStash, inDoing) ==
    LET i == FirstMatch(stashFiles, inStash)
        j == FirstMatch(doingFiles, inDoing)
    IN  IF j # 0 THEN loadIssueFile(DOING, getDoingDir(basePath), doingFiles[j])
        ELSE IF i # 0 THEN loadIssueFile(STASH, getStashDir(basePath), stashFiles[i])
        ELSE NotFound("not-found")

\* the two loops of a find operation: stash, then doing, return at the first match
scanListings(stashFiles, doingFiles, inStash, inDoing) ==
    LET i == FirstMatch(stashFiles, inStash)
        j == FirstMatch(doingFiles, inDoing)
    IN  IF i # 0 THEN loadIssueFile(STASH, getStashDir(basePath), stashFiles[i])
        ELSE IF j # 0 THEN loadIssueFile(DOING, getDoingDir(basePath), doingFiles[j])
        ELSE NotFound("not-found")

\* findIssue(identifier) for the given listings of stash and doing
findIssueListed(identifier, stashFiles, doingFiles) ==
    LET number           == ParseInt(identifier)
        searchNormalized == normalizeTitleForSearch(identifier)
    IN  IF ~number.isNaN
        THEN scanListings(stashFiles, doingFiles,
                          {f \in stash : NumberMatches(f.name, number.value)},
                          {f \in doing : NumberMatches(f.name, number.value)})
        ELSE IF Len(searchNormalized) = 0 THEN NotFound("not-found")
        ELSE scanListings(stashFiles, doingFiles,
                          {f \in stash : TitleMatches(f.name, searchNormalized)},
                          {f \in doing : TitleMatches(f.name, searchNormalized)})

CreateListed(in) == Len(issued) < MaxFindCreates /\ Create(in)

FindListed(identifier) ==
    /\ \E stashFiles \in Listings(stash), doingFiles \in Listings(doing) :
          LET r == findIssueListed(identifier, stashFiles, doingFiles)
          IN  last' = [Completed("find", identifier, r, r.found, r.error, <<>>)
                          EXCEPT !.listing = [stash |-> stashFiles, doing |-> doingFiles]]
    /\ UNCHANGED <<creating, input, basePath, stash, doing, achieved, solution, agents, issued, calls>>

NextFind ==
    \/ \E in \in FindInputs : CreateListed(in)
    \/ \E identifier \in ListedIdentifiers : OpenCommand(identifier)
    \/ \E identifier \in ListedIdentifiers : FindListed(identifier)

SpecFind == Init /\ [][NextFind]_vars

(***************************************************************************)
(* Issue files that were changed by hand: a stash file can lose its        *)
(* frontmatter or get a Type the program does not know.                    *)
(***************************************************************************)
MalformedTexts ==
    {<<"no frontmatter">>,
     formatIssueFile([createDate |-> Today, type |-> "epic", index |-> 0], ContentPlain)}

MaxMalformedCreates == 2

MalformedInputs ==
    {[title |-> TitleFix, type |-> "feat", content |-> ContentPlain],
     [title |-> TitleUndoing, type |-> "todo", content |-> ContentPlain]}

\* a number and a title fragment that both titles contain
MalformedIdentifiers == {<<"0">>, <<"u">>}

\* loadIssueFile rejects the text: validateIssueType(metadata.Type) is null
InvalidType(text) == ~validateIssueType(YamlGet(parseIssueFile(text).metadata, KeyType))

\* somebody edits a file of the stash directory
EditIssueFile(name, text) ==
    /\ \E f \in stash :
          /\ f.name = name
          /\ f.text # text
          /\ stash' = (stash \ {f}) \cup {[f EXCEPT !.text = text]}
    /\ last' = Completed("edit", <<>>, NoResult, TRUE, "none", name)
    /\ UNCHANGED <<creating, input, basePath, doing, achieved, solution, agents, issued, calls>>

CreateEditable(in) == Len(issued) < MaxMalformedCreates /\ Create(in)

NextMalformed ==
    \/ \E in \in MalformedInputs : CreateEditable(in)
    \/ \E f \in stash, text \in MalformedTexts : EditIssueFile(f.name, text)
    \/ \E identifier \in MalformedIdentifiers : FindListed(identifier)

SpecMalformed == Init /\ [][NextMalformed]_vars

(***************************************************************************)
(* createIssue step by step.  createIssue is an async function: it gives   *)
(* up control at every await, and the TUI hands each submitted command to  *)
(* App.handleCommand without waiting for the handler of the command before *)
(* it, so the calls in creating advance in any order.  Each call keeps the *)
(* maxId it has read so far, the id it was given, how many files had been  *)
(* written when it read stash (epoch) and, once done, the position of its  *)
(* own write among all writes (order).                                     *)
(***************************************************************************)
MaxRaceCreates == 2

RaceInputs ==
    {[title |-> TitleFix, type |-> "feat", content |-> ContentPlain],
     [title |-> TitleFix, type |-> "bug", content |-> ContentMarkers],
     [title |-> TitleUndoing, type |-> "todo", content |-> ContentPlain]}

\* one loop of getNextId over the names of a directory
maxIssueNumber(dir, maxId) == SetMax(NumbersIn(dir) \cup {maxId}, maxId)

\* an allocation that skips the ids held by the calls that have not written yet
allocatedId_Reserving(maxId) ==
    LET held == {creating[k].id : k \in {n \in 1..Len(creating) : creating[n].pos = "write"}}
    IN  CHOOSE n \in (maxId + 1)..(maxId + 1 + Cardinality(held)) :
            n \notin held /\ \A m \in (maxId + 1)..(n - 1) : m \in held

\* return maxId + 1
allocatedId(maxId) == maxId + 1

\* Input hands the submitted command to App.handleCommand, which runs the
\* add handler up to the first await of createIssue
StartCreate(in) ==
    /\ Len(creating) < MaxRaceCreates
    /\ creating' = Append(creating,
                          [title |-> in.title, type |-> in.type, content |-> in.content,
                           pos |-> "readStash", maxId |-> -1, id |-> -1,
                           epoch |-> 0, order |-> 0])
    /\ UNCHANGED <<basePath, stash, doing, achieved, solution, agents, issued, calls, last,
                   input>>

\* await fs.readdir(stashDir) and the loop over its names
ReadStash(i) ==
    /\ creating[i].pos = "readStash"
    /\ creating' = [creating EXCEPT ![i].pos = "readDoing",
                                    ![i].maxId = maxIssueNumber(stash, -1),
                                    ![i].epoch = Len(issued)]
    /\ UNCHANGED <<basePath, stash, doing, achieved, solution, agents, issued, calls, last,
                   input>>

\* await fs.readdir(doingDir), the loop over its names, and return maxId + 1
ReadDoing(i) ==
    /\ creating[i].pos = "readDoing"
    /\ LET maxId == maxIssueNumber(doing, creating[i].maxId)
       IN  creating' = [creating EXCEPT ![i].pos = "write",
                                        ![i].maxId = maxId,
                                        ![i].id = allocatedId(maxId)]
    /\ UNCHANGED <<basePath, stash, doing, achieved, solution, agents, issued, calls, last,
                   input>>

\* await fs.writeFile(filePath, fileContent) and the result of createIssue
WriteIssue(i) ==
    /\ creating[i].pos = "write"
    /\ LET c        == creating[i]
           filename == generateIssueFilename(c.title, c.id)
           metadata == [createDate |-> Today, type |-> c.type, index |-> c.id]
           file     == [name |-> filename, text |-> formatIssueFile(metadata, c.content),
                        uid |-> i]
       IN  /\ stash' = WriteInto(stash, file)
           /\ issued' = Append(issued, c.id)
           /\ creating' = [creating EXCEPT ![i].pos = "done", ![i].order = Len(issued) + 1]
           /\ last' = Completed("create", <<>>, NoResult, TRUE, "none", filename)
    /\ UNCHANGED <<basePath, doing, achieved, solution, agents, calls, input>>

NextRace ==
    \/ \E in \in RaceInputs : StartCreate(in)
    \/ \E i \in 1..Len(creating) : ReadStash(i)
    \/ \E i \in 1..Len(creating) : ReadDoing(i)
    \/ \E i \in 1..Len(creating) : WriteIssue(i)

SpecRace == Init /\ [][NextRace]_vars

(***************************************************************************)
(* The Input component of the TUI (Input.tsx and input-logic.ts): one      *)
(* action per key event, made of the useInput callback and the render that *)
(* follows it.  historyIndex null is HistoryIndexNull.                     *)
(***************************************************************************)
MaxKeys == 8

MaxPresses == 2

AVAILABLE_COMMANDS ==
    << <<"/", "i", "n", "i", "t">>,
       <<"/", "a", "d", "d", ":", "f", "e", "a", "t">>,
       <<"/", "a", "d", "d", ":", "t", "o", "d", "o">>,
       <<"/", "a", "d", "d", ":", "b", "u", "g">>,
       <<"/", "a", "d", "d", ":", "r", "e", "f", "a", "c", "t">>,
       <<"/", "o", "p", "e", "n">>,
       <<"/", "c", "l", "o", "s", "e">>,
       <<"/", "l", "i", "s", "t">>,
       <<"/", "e", "x", "i", "t">>,
       <<"/", "q", "u", "i", "t">> >>

\* String.prototype.toLowerCase
ToLowerCase(s) == [i \in 1..Len(s) |-> ToLowerChar(s[i])]

\* the comparator given to Array.prototype.sort
compareCommands(a, b, value) ==
    LET aExact == ToLowerCase(a) = ToLowerCase(value)
        bExact == ToLowerCase(b) = ToLowerCase(value)
    IN  IF aExact /\ ~bExact THEN -1
        ELSE IF ~aExact /\ bExact THEN 1
        ELSE Len(a) - Len(b)

\* Array.prototype.sort, which is stable: each element goes behind the last
\* element already placed that the comparator does not put after it
RECURSIVE StableSort(_, _)
StableSort(list, value) ==
    IF Len(list) <= 1 THEN list
    ELSE LET x      == list[Len(list)]
             sorted == StableSort(SubSeq(list, 1, Len(list) - 1), value)
             keep   == Cardinality({k \in 1..Len(sorted) :
                           \E m \in k..Len(sorted) : compareCommands(sorted[m], x, value) <= 0})
         IN  SubSeq(sorted, 1, keep) \o <<x>> \o SubSeq(sorted, keep + 1, Len(sorted))

getMatchingCommands(value) ==
    IF ~MatchAt(value, <<"/">>, 1) THEN <<>>
    ELSE LET lower == ToLowerCase(value)
         IN  StableSort(SelectSeq(AVAILABLE_COMMANDS,
                                  LAMBDA cmd : MatchAt(ToLowerCase(cmd), lower, 1)),
                        value)

\* a selection that does not stop at the last command
getNextSelectedIndex_NoClamp(currentIndex, direction, total) ==
    IF total <= 0 THEN 0
    ELSE IF direction = "up" THEN IF currentIndex - 1 > 0 THEN currentIndex - 1 ELSE 0
    ELSE currentIndex + 1

getNextSelectedIndex(currentIndex, direction, total) ==
    IF total <= 0 THEN 0
    ELSE IF direction = "up" THEN IF currentIndex - 1 > 0 THEN currentIndex - 1 ELSE 0
    ELSE IF currentIndex + 1 < total - 1 THEN currentIndex + 1 ELSE total - 1

\* String.prototype.slice(from, to) with 0 <= from, in JavaScript's indices
Slice(s, from, to) ==
    IF from >= Len(s) \/ to <= from THEN <<>>
    ELSE SubSeq(s, from + 1, IF to > Len(s) THEN Len(s) ELSE to)

clearHistoryNavigation(s) ==
    IF s.historyIndex # HistoryIndexNull
    THEN [s EXCEPT !.historyIndex = HistoryIndexNull, !.historyDraft = <<>>]
    ELSE s

\* the two while loops: back over white space, then back over the word
deleteWordBeforeCursor(current, cursor) ==
    IF Len(current) = 0 \/ cursor <= 0
    THEN [value |-> current, cursor |-> IF cursor > 0 THEN cursor ELSE 0]
    ELSE LET spaceAt(p) == p <= Len(current) /\ IsSpace(current[p])
             wordEnd   == Cardinality({p \in 1..cursor : \E q \in p..cursor : ~spaceAt(q)})
             newCursor == Cardinality({p \in 1..wordEnd : \E q \in p..wordEnd : spaceAt(q)})
         IN  [value  |-> Slice(current, 0, newCursor) \o Slice(current, cursor, Len(current)),
              cursor |-> newCursor]

\* Tab or Return while the completion list is shown
completeSelected(s, filteredCommands) ==
    IF s.selectedIndex + 1 > Len(filteredCommands) THEN s
    ELSE LET selectedCommand == filteredCommands[s.selectedIndex + 1]
             completedValue  == IF EndsWith(selectedCommand, <<" ">>) THEN selectedCommand
                                ELSE selectedCommand \o <<" ">>
         IN  [clearHistoryNavigation(s) EXCEPT
                  !.value = completedValue,
                  !.cursorIndex = Len(completedValue),
                  !.showCompletion = FALSE,
                  !.selectedIndex = 0]

\* Up while the completion list is hidden and the history is not empty
historyUp(s) ==
    LET newIndex == IF s.historyIndex = HistoryIndexNull THEN Len(s.history) - 1
                    ELSE IF s.historyIndex - 1 > 0 THEN s.historyIndex - 1 ELSE 0
    IN  [s EXCEPT !.historyDraft = IF s.historyIndex = HistoryIndexNull THEN s.value ELSE @,
                  !.historyIndex = newIndex,
                  !.value = s.history[newIndex + 1],
                  !.cursorIndex = Len(s.history[newIndex + 1]),
                  !.showCompletion = FALSE,
                  !.selectedIndex = 0]

\* a Down at the end of the history that forgets the draft
historyDown_DropDraft(s) ==
    IF s.historyIndex = HistoryIndexNull THEN s
    ELSE IF s.historyIndex + 1 >= Len(s.history)
    THEN [s EXCEPT !.historyIndex = HistoryIndexNull,
                   !.value = <<>>,
                   !.cursorIndex = 0,
                   !.showCompletion = FALSE,
                   !.historyDraft = <<>>,
                   !.selectedIndex = 0]
    ELSE [s EXCEPT !.historyIndex = s.historyIndex + 1,
                   !.value = s.history[s.historyIndex + 2],
                   !.cursorIndex = Len(s.history[s.historyIndex + 2]),
                   !.showCompletion = FALSE,
                   !.selectedIndex = 0]

\* Down while the completion list is hidden and the history is not empty
historyDown(s) ==
    IF s.historyIndex = HistoryIndexNull THEN s
    ELSE IF s.historyIndex + 1 >= Len(s.history)
    THEN [s EXCEPT !.historyIndex = HistoryIndexNull,
                   !.value = s.historyDraft,
                   !.cursorIndex = Len(s.historyDraft),
                   !.showCompletion = MatchAt(s.historyDraft, <<"/">>, 1),
                   !.historyDraft = <<>>,
                   !.selectedIndex = 0]
    ELSE [s EXCEPT !.historyIndex = s.historyIndex + 1,
                   !.value = s.history[s.historyIndex + 2],
                   !.cursorIndex = Len(s.history[s.historyIndex + 2]),
                   !.showCompletion = FALSE,
                   !.selectedIndex = 0]

\* Return outside the completion list: submit, remember, reset
submit(s) ==
    LET submitted == TrimClass(s.value, SpaceChars)
    IN  IF Len(submitted) = 0 THEN s
        ELSE [s EXCEPT !.history = IF Len(@) > 0 /\ @[Len(@)] = submitted THEN @
                                   ELSE Append(@, submitted),
                       !.value = <<>>,
                       !.cursorIndex = 0,
                       !.showCompletion = FALSE,
                       !.selectedIndex = 0,
                       !.historyIndex = HistoryIndexNull,
                       !.historyDraft = <<>>]

\* the edit keys: Ctrl-W, Backspace, Delete and typed text
edit(s, key, text) ==
    LET c == clearHistoryNavigation(s)
        shown(newValue, cursor) ==
            [c EXCEPT !.value = newValue, !.cursorIndex = cursor,
                      !.showCompletion = MatchAt(newValue, <<"/">>, 1),
                      !.selectedIndex = 0]
    IN  CASE key = "ctrlW" ->
                 LET d == deleteWordBeforeCursor(s.value, s.cursorIndex)
                 IN  shown(d.value, d.cursor)
          [] key = "backspace" ->
                 IF s.cursorIndex = 0 THEN c
                 ELSE shown(Slice(s.value, 0, s.cursorIndex - 1)
                                \o Slice(s.value, s.cursorIndex, Len(s.value)),
                            s.cursorIndex - 1)
          [] key = "delete" ->
                 IF s.cursorIndex >= Len(s.value) THEN c
                 ELSE shown(Slice(s.value, 0, s.cursorIndex)
                                \o Slice(s.value, s.cursorIndex + 1, Len(s.value)),
                            s.cursorIndex)
          [] OTHER ->
                 shown(Slice(s.value, 0, s.cursorIndex) \o text
                           \o Slice(s.value, s.cursorIndex, Len(s.value)),
                       s.cursorIndex + Len(text))

\* the callback given to useInput
useInput(s, key, text) ==
    LET filteredCommands == getMatchingCommands(s.value)
        total            == Len(filteredCommands)
    IN  IF s.showCompletion /\ total > 0 /\ key \in {"upArrow", "downArrow", "tab", "return"}
        THEN IF key = "upArrow"
             THEN [s EXCEPT !.selectedIndex = getNextSelectedIndex(@, "up", total)]
             ELSE IF key = "downArrow"
             THEN [s EXCEPT !.selectedIndex = getNextSelectedIndex(@, "down", total)]
             ELSE completeSelected(s, filteredCommands)
        ELSE IF ~s.showCompletion /\ key \in {"upArrow", "downArrow"}
        THEN IF Len(s.history) = 0 THEN s
             ELSE IF key = "upArrow" THEN historyUp(s)
             ELSE historyDown(s)
        ELSE IF key = "leftArrow"
        THEN [s EXCEPT !.cursorIndex = IF @ - 1 > 0 THEN @ - 1 ELSE 0]
        ELSE IF key = "rightArrow"
        THEN [s EXCEPT !.cursorIndex = IF @ + 1 < Len(s.value) THEN @ + 1 ELSE Len(s.value)]
        ELSE IF key = "return" THEN submit(s)
        ELSE IF key \in {"ctrlW", "backspace", "delete"} THEN edit(s, key, text)
        ELSE IF Len(text) > 0 THEN edit(s, key, text)
        ELSE s

\* the body of the component after the callback: hide the list without matches
renderInput(s) ==
    IF s.showCompletion /\ Len(getMatchingCommands(s.value)) = 0
    THEN [s EXCEPT !.showCompletion = FALSE]
    ELSE s

SpecialKeys ==
    {"upArrow", "downArrow", "tab", "return", "leftArrow", "rightArrow",
     "ctrlW", "backspace", "delete"}

TypedTexts == {<<"/">>, <<"A">>}

\* the Up and Down presses made in a row since history navigation began
pressesAfter(s, key) ==
    LET r == s.run
    IN  IF key = "upArrow" /\ ~s.showCompletion /\ Len(s.history) > 0
              /\ s.historyIndex = HistoryIndexNull
        THEN [active |-> TRUE, start |-> s.value, ups |-> 1, downs |-> 0]
        ELSE IF key = "upArrow" /\ r.active /\ r.downs = 0 /\ r.ups < MaxPresses
        THEN [r EXCEPT !.ups = @ + 1]
        ELSE IF key = "downArrow" /\ r.active /\ r.downs < r.ups
        THEN [r EXCEPT !.downs = @ + 1]
        ELSE InputInitial.run

\* the TUI has just started in a project without issues
InitInput ==
    /\ basePath = <<"/", "w">>
    /\ stash = {}
    /\ doing = {}
    /\ achieved = {}
    /\ solution = NoFile
    /\ agents = NoFile
    /\ issued = <<>>
    /\ creating = <<>>
    /\ last = Completed("none", <<>>, NoResult, FALSE, "none", <<>>)
    /\ input = InputInitial
    /\ calls = 0

\* one key event; calls counts the key events so far
KeyEvent(key, text) ==
    /\ calls < MaxKeys
    /\ calls' = calls + 1
    /\ input' = [renderInput(useInput(input, key, text)) EXCEPT !.run = pressesAfter(input, key)]
    /\ last' = Completed("key", <<>>, NoResult, TRUE, "none", <<>>)
    /\ UNCHANGED <<basePath, stash, doing, achieved, solution, agents, issued, creating>>

\* the arguments getNextSelectedIndex can be given for a list of commands
SelectionInputs ==
    {<<currentIndex, total>> \in (0..Len(AVAILABLE_COMMANDS)) \X (0..Len(AVAILABLE_COMMANDS)) :
        currentIndex = 0 \/ currentIndex < total}

\* getNextSelectedIndex called on its own, before any key event, as the unit
\* tests call it; last keeps the arguments, the direction and the result
SelectNext(currentIndex, direction, total) ==
    /\ calls = 0
    /\ last' = Completed("nextIndex", <<currentIndex, total>>,
                         [NoResult EXCEPT !.issue.number =
                              getNextSelectedIndex(currentIndex, direction, total)],
                         TRUE, direction, <<>>)
    /\ UNCHANGED <<basePath, stash, doing, achieved, solution, agents, issued, calls,
                   creating, input>>

NextInput ==
    \/ \E key \in SpecialKeys : KeyEvent(key, <<>>)
    \/ \E text \in TypedTexts : KeyEvent("input", text)
    \/ \E in \in SelectionInputs, direction \in {"up", "down"} :
          SelectNext(in[1], direction, in[2])

SpecInput == InitInput /\ [][NextInput]_vars

(***************************************************************************)
(* Properties.                                                             *)
(***************************************************************************)
\* the files of a directory that descend from create call u
FilesOf(dir, u) == {f \in dir : f.uid = u}

\* the files of a directory that carry issue number n
Numbered(dir, n) == {f \in dir : isIssueFile(f.name) /\ extractIssueNumber(f.name) = n}

\* how many START...END blocks the stripping expression finds in a text
RECURSIVE CountBlocks(_)
CountBlocks(text) ==
    LET s == IndexFrom(text, <<ISSUE_MAKE_START>>, 1)
        e == IF s = 0 THEN 0 ELSE IndexFrom(text, <<ISSUE_MAKE_END>>, s + 1)
    IN  IF s = 0 \/ e = 0 THEN 0 ELSE 1 + CountBlocks(Drop(text, e + 1))

\* C1: the numbers returned by successive successful create calls are
\* strictly increasing, so no number is returned twice, also when issues
\* created earlier have been closed in between.
C1_CreateNumbersIncrease ==
    \A i, j \in 1..Len(issued) : i < j => issued[i] < issued[j]

\* C2: after every completed operation no two files of stash and doing
\* together carry the same issue number.
C2_UniqueNumbers ==
    \A n \in NumbersIn(stash) \cup NumbersIn(doing) :
        Cardinality(Numbered(stash, n)) + Cardinality(Numbered(doing, n)) = 1

\* C2 witness: a create has completed while one issue is in doing and
\* another one is in stash.
C2_Witness == last.op = "create" /\ doing # {} /\ Cardinality(stash) >= 1

\* C3: after every completed operation, successful or not, every created
\* issue is represented by exactly one file across stash, doing and achieved.
C3_OneFilePerIssue ==
    \A u \in 1..Len(issued) :
        Cardinality(FilesOf(stash, u)) + Cardinality(FilesOf(doing, u))
            + Cardinality(FilesOf(achieved, u)) = 1

\* C4: after a successful open the opened issue has no file in stash; after
\* a successful close the closed issue has no file in doing and solution.md
\* does not exist.
C4_StageExclusivity ==
    /\ (last.op = "open" /\ last.success) =>
          /\ FilesOf(stash, last.found.uid) = {}
          /\ Numbered(stash, last.found.issue.number) = {}
    /\ (last.op = "close" /\ last.success) =>
          /\ FilesOf(doing, last.found.uid) = {}
          /\ Numbered(doing, last.found.issue.number) = {}
          /\ ~solution.exists

\* C4 witness: a close has succeeded while another issue is still in stash.
C4_Witness == last.op = "close" /\ last.success /\ stash # {}

\* C5: close of an issue that find resolves, while solution.md is absent,
\* reports the solution-missing error and leaves the whole disk, AGENTS.md
\* included, as it was.
C5_GateEnforcement ==
    (last.op = "close" /\ last.found.found /\ ~last.pre.solution.exists) =>
        /\ ~last.success
        /\ last.error = "solution-missing"
        /\ Disk = last.pre

\* C5 witness: close was asked for an issue that is in doing while
\* solution.md is absent.
C5_Witness ==
    /\ last.op = "close"
    /\ last.found.found
    /\ last.found.dir = DOING
    /\ ~last.pre.solution.exists

\* an open that resolved to a file of the doing directory failed with the
\* already-in-progress error and changed nothing
OpenOfDoingRejected ==
    (last.op = "open" /\ last.found.found /\ last.found.dir = DOING) =>
        /\ ~last.success
        /\ last.error = "already-in-progress"
        /\ Disk = last.pre

\* an open that directly follows a successful open of the same issue fails
SecondOpenFails ==
    (/\ last.op = "open"
     /\ last.success
     /\ last'.op = "open"
     /\ last'.found.found
     /\ last'.found.uid = last.found.uid) => ~last'.success

\* C6: open of an issue whose file is already in doing fails with the
\* already-in-progress error and changes nothing (no rename, solution.md and
\* AGENTS.md untouched), and a second open of an issue directly after a
\* successful one never succeeds.
C6_AlreadyInProgress == []OpenOfDoingRejected /\ [][SecondOpenFails]_vars

\* C6 witness: an open resolved to a file in doing and was rejected.
C6_Witness ==
    /\ last.op = "open"
    /\ last.found.found
    /\ last.found.dir = DOING
    /\ last.error = "already-in-progress"

\* C7: the stage of a found issue is the directory that holds its file, for
\* every title and base path, so an open of an issue found in stash is never
\* rejected as already in progress.
C7_StageFromDirectory ==
    /\ last.found.found => last.found.issue.status = last.found.dir
    /\ (last.op = "open" /\ last.found.found /\ last.found.dir = STASH) =>
          last.error # "already-in-progress"

\* C8: for every title, the open by number that directly follows a create
\* succeeds and renames the created stash file to the same name in doing.
C8_CreatedIssueOpens ==
    [][(/\ last.op = "create"
        /\ last'.op = "open"
        /\ last'.ident = DigitsOf(issued[Len(issued)]))
       => (/\ last'.success
           /\ HasName(doing', last.filename)
           /\ ~HasName(stash', last.filename))]_vars

\* C9: after every open or close that ran its AGENTS.md update, AGENTS.md
\* holds at most one START...END block.
C9_AtMostOneBlock ==
    (last.op \in {"open", "close"} /\ last.success /\ agents.exists) =>
        CountBlocks(agents.text) <= 1

\* C10: publishing the same issue twice in a row leaves AGENTS.md as the
\* first of the two publishes left it.
C10_PublishIdempotent ==
    [][(/\ last.op = "publish"
        /\ last'.op = "publish"
        /\ last'.found.issue = last.found.issue)
       => agents' = agents]_vars

\* C11: for an AGENTS.md that exists and holds no START...END block, a
\* publish directly followed by a retract leaves AGENTS.md with exactly the
\* text it had before the publish.
C11_PublishRetractRestores ==
    [][(/\ last.op = "publish"
        /\ last.pre.agents.exists
        /\ CountBlocks(last.pre.agents.text) = 0
        /\ last'.op = "retract")
       => agents' = last.pre.agents]_vars

\* C14: a retract on a project without AGENTS.md reports failure and does
\* not create the file, whereas a publish on a project without AGENTS.md
\* succeeds and creates the file as the default header followed by the
\* block of the published issue.
C14_MissingBriefAsymmetry ==
    /\ (last.op = "retract" /\ ~last.pre.agents.exists) =>
          /\ ~last.success
          /\ ~agents.exists
    /\ (last.op = "publish" /\ ~last.pre.agents.exists) =>
          /\ last.success
          /\ agents = FileOf(DefaultAgents
                             \o taskContent(last.found.issue, getSolutionPath(basePath)))

\* C14 witness: a retract ran, and failed, on a project without AGENTS.md.
C14_Witness == last.op = "retract" /\ ~last.pre.agents.exists /\ ~last.success

CloseFailedMidway ==
    /\ last.op = "close"
    /\ last.fault # "none"
    /\ last.found.found
    /\ last.found.dir = DOING
    /\ last.pre.solution.exists

\* C13: a close in which the read of solution.md, the write of the archive
\* file, the delete of the doing file or the delete of solution.md fails
\* reports failure and leaves the doing file and solution.md in place.
C13_FailedCloseKeepsInputs ==
    CloseFailedMidway =>
        /\ ~last.success
        /\ FilesOf(doing, last.found.uid) # {}
        /\ solution.exists

\* C15: the issue that find returns for a file createIssue wrote carries
\* exactly the content, the type and the creation date given at its create,
\* that is, parseIssueFile undoes formatIssueFile on metadata and body.
C15_CodecRoundTrip ==
    (last.op = "find" /\ last.found.found) =>
        /\ last.found.issue.content = last.found.uid.content
        /\ last.found.issue.type = last.found.uid.type
        /\ last.found.issue.createDate = Today

\* C16: after a successful close the archive file of the closed issue holds
\* exactly the content given at its create, then the solution section
\* heading, then the text solution.md held when the close ran.
C16_ArchivedContent ==
    (last.op = "close" /\ last.success) =>
        \E f \in achieved :
            /\ f.uid = last.found.uid
            /\ f.name = generateAchievedFilename(last.found.issue.title)
            /\ f.text = f.uid.content \o SolutionSection \o last.pre.solution.text

\* C17: getNextId succeeds also when the stash or the doing directory does
\* not exist; it returns 0 when no file of stash or doing carries a number,
\* and otherwise one more than the largest number carried by a file of
\* stash or doing, whatever numbers below it are unused.
C17_NextId ==
    last.op = "nextId" =>
        LET found == NumbersIn(stash) \cup NumbersIn(doing)
            id    == last.found.issue.number
        IN  /\ last.success
            /\ found = {} => id = 0
            /\ found # {} => (id - 1 \in found /\ \A n \in found : n < id)

\* C17 witness: getNextId ran while the stash directory did not exist and
\* the numbers in doing had a gap below their largest.
C17_Witness ==
    /\ last.op = "nextId"
    /\ last.fault = "readdirStash"
    /\ 2 \in NumbersIn(doing)
    /\ 1 \notin NumbersIn(doing)

\* C18: find resolves an identifier made of decimal digits only by number,
\* and every other identifier, one that begins with digits or carries a
\* sign included, by title.
C18_ResolutionRoute ==
    last.op = "find" =>
        last.found \in (IF isNumberIdentifier(last.ident)
                        THEN findIssueByNumber(DigitsValue(last.ident))
                        ELSE findIssueByTitle(last.ident))

\* C19: find-by-title returns an issue only when the normalized title of
\* its file and the normalized query are both non-empty and one contains
\* the other; a query that no title is so related to gets not-found,
\* whatever files, files with punctuation-only titles included, exist.
C19_TitleContainment ==
    (last.op = "findByTitle" /\ last.found.found) =>
        LET fileNormalized   == normalizeTitleForSearch(last.found.issue.title)
            searchNormalized == normalizeTitleForSearch(last.ident)
        IN  /\ Len(fileNormalized) > 0
            /\ Len(searchNormalized) > 0
            /\ \/ Includes(fileNormalized, searchNormalized)
               \/ Includes(searchNormalized, fileNormalized)

\* C20: the slug sanitizeTitle returns is never empty, and it is 'untitled'
\* unless it holds at least one letter or digit.
C20_UntitledFallback ==
    last.op = "create" =>
        LET slug == StripIssueSuffix(last.filename)
        IN  /\ Len(slug) > 0
            /\ slug = Untitled \/ \E i \in 1..Len(slug) : IsAlnum(slug[i])

\* C21: for every title, titles longer than the slug limit included, the
\* slug of the file name createIssue generates neither begins nor ends
\* with '-'.
C21_SlugDashFree ==
    last.op = "create" =>
        LET slug == StripIssueSuffix(last.filename)
        IN  /\ Len(slug) > 0
            /\ slug[1] # "-"
            /\ slug[Len(slug)] # "-"

\* C22: the number extracted from the file name generateIssueFilename builds
\* from a title and a number is that number, whatever dots and digits the
\* title holds, and the file name generateAchievedFilename builds is not
\* read as carrying a number.
C22_FilenameNumberRoundTrip ==
    /\ last.op = "issueFilename" =>
          /\ isIssueFile(last.filename)
          /\ extractIssueNumber(last.filename) = last.found.issue.number
    /\ last.op = "achievedFilename" => ~isIssueFile(last.filename)

\* C23: in every step, a created issue gets a file in doing only through an
\* open that found it in stash, gets a file in achieved only through a
\* close, gets a file in stash only through its create, and keeps the file
\* it has in achieved.
C23_StageMovesForward ==
    [][\A u \in 1..MaxCreates :
          /\ (FilesOf(doing', u) # {} /\ FilesOf(doing, u) = {}) =>
                (last'.op = "open" /\ FilesOf(stash, u) # {})
          /\ (FilesOf(achieved', u) # {} /\ FilesOf(achieved, u) = {}) =>
                last'.op = "close"
          /\ (FilesOf(stash', u) # {} /\ FilesOf(stash, u) = {}) =>
                (last'.op = "create" /\ FilesOf(doing, u) = {})
          /\ FilesOf(achieved, u) # {} => FilesOf(achieved', u) # {}]_vars

\* the title is Issue- followed by decimal digits only
IsFallbackTitle(title) ==
    /\ MatchAt(title, FallbackPrefix, 1)
    /\ isNumberIdentifier(Drop(title, Len(FallbackPrefix) + 1))

\* C24: an add with an empty or blank description fails and creates no
\* file; an add with any other description, when the title generator is
\* not configured, reports failure or throws, succeeds and creates exactly
\* one file, whose title is Issue- followed by digits.
C24_AddNeverDependsOnGenerator ==
    last.op = "add" =>
        IF Len(TrimClass(last.found.issue.content, SpaceChars)) = 0
        THEN ~last.success /\ stash = last.pre.stash
        ELSE last.fault \in {"unconfigured", "failure", "throws"} =>
                /\ last.success
                /\ IsFallbackTitle(last.ident)
                /\ Cardinality(stash \ last.pre.stash) = 1
                /\ last.pre.stash \subseteq stash
                /\ \A f \in stash \ last.pre.stash :
                      /\ StripIssueSuffix(f.name) = sanitizeTitle(last.ident)
                      /\ f.name = last.filename

\* C24 witness: an add with a non-blank description went through while the
\* title generator threw.
C24_Witness ==
    /\ last.op = "add"
    /\ last.fault = "throws"
    /\ last.success
    /\ Len(TrimClass(last.found.issue.content, SpaceChars)) > 0

\* solution.md exists only while some issue is in doing, exists after a
\* successful open and is gone after a close that archived its issue
SolutionOnlyWhileDoing ==
    /\ solution.exists => doing # {}
    /\ (last.op = "open" /\ last.success) => solution.exists
    /\ (last.op = "close" /\ last.error \in {"none", "agents"}) => ~solution.exists

\* solution.md comes into being only by an open that moved an issue, and
\* goes away only by a close that archived one
SolutionMadeByOpenRemovedByClose ==
    /\ (~solution.exists /\ solution'.exists) =>
          (last'.op = "open" /\ last'.success)
    /\ (solution.exists /\ ~solution'.exists) =>
          (last'.op = "close" /\ last'.error \in {"none", "agents"})

C27_OpenKeepsContent ==
    [][(/\ last.op = "open"
        /\ last.success
        /\ last'.op = "find"
        /\ last'.found.found
        /\ last'.found.uid = last.found.uid)
       => (/\ last'.found.issue.content = last.found.issue.content
           /\ last'.found.issue.type = last.found.issue.type
           /\ last'.found.issue.createDate = last.found.issue.createDate
           /\ last'.found.dir = DOING)]_vars

\* C27 witness: a find has returned an issue that an open moved to doing.
C27_Witness ==
    /\ last.op = "find"
    /\ last.found.found
    /\ last.found.dir = DOING
    /\ last.pre.solution.exists

\* C28: after a close that succeeded together with its AGENTS.md cleanup,
\* AGENTS.md holds no START...END block and neither marker string, whatever
\* title and content the open before it published.
C28_BriefCleanAfterClose ==
    (last.op = "close" /\ last.success) =>
        /\ agents.exists
        /\ CountBlocks(agents.text) = 0
        /\ ISSUE_MAKE_START \notin Range(agents.text)
        /\ ISSUE_MAKE_END \notin Range(agents.text)

\* C29: an open or a close whose identifier resolves to no issue reports
\* failure and leaves stash, doing, achieved, solution.md and AGENTS.md as
\* they were.
C29_NotFoundChangesNothing ==
    (last.op \in {"open", "close"} /\ ~last.found.found) =>
        /\ ~last.success
        /\ last.error \in {"not-found", "no-identifier", "invalid-type"}
        /\ Disk = last.pre

\* C29 witness: an open was asked with an identifier that resolves to no
\* issue while one issue is in stash and another one is in doing.
C29_Witness ==
    /\ last.op = "open"
    /\ ~last.found.found
    /\ last.error = "not-found"
    /\ stash # {}
    /\ doing # {}
    /\ solution.exists

\* the file name matches the identifier, by number or by title as findIssue decides
IdentifierMatches(name, identifier) ==
    IF ~ParseInt(identifier).isNaN
    THEN NumberMatches(name, ParseInt(identifier).value)
    ELSE TitleMatches(name, normalizeTitleForSearch(identifier))

\* position i of the listing holds the named file, it matches the
\* identifier, and no file listed before it does
IsFirstMatch(listing, name, identifier) ==
    \E i \in 1..Len(listing) :
        /\ listing[i].name = name
        /\ IdentifierMatches(name, identifier)
        /\ \A j \in 1..(i - 1) : ~IdentifierMatches(listing[j].name, identifier)

\* C30: find returns the first file, in listing order, of stash that
\* matches the identifier; when no file of stash matches, the first one of
\* doing; and not-found only when no file of either matches.
C30_StashFirstThenListingOrder ==
    last.op = "find" =>
        IF \E f \in stash : IdentifierMatches(f.name, last.ident)
        THEN /\ last.found.found
             /\ last.found.dir = STASH
             /\ IsFirstMatch(last.listing.stash, last.found.name, last.ident)
        ELSE IF \E f \in doing : IdentifierMatches(f.name, last.ident)
        THEN /\ last.found.found
             /\ last.found.dir = DOING
             /\ IsFirstMatch(last.listing.doing, last.found.name, last.ident)
        ELSE ~last.found.found

\* C30 witness: a find by title ran while a file of stash and a file of
\* doing both matched, and returned the stash file.
C30_Witness ==
    /\ last.op = "find"
    /\ ParseInt(last.ident).isNaN
    /\ \E f \in stash : IdentifierMatches(f.name, last.ident)
    /\ \E f \in doing : IdentifierMatches(f.name, last.ident)
    /\ last.found.dir = STASH

\* the first file, in listing order, of the listing that matches the identifier
FirstMatching(listing, identifier) ==
    listing[CHOOSE i \in 1..Len(listing) :
                IsFirstMatch(listing, listing[i].name, identifier)]

\* C31: the result of a find is decided by the first file, stash before
\* doing and in listing order, whose name matches the identifier: when that
\* file has no frontmatter or an unknown Type the find returns not-found
\* with the invalid-type error, whatever valid files match after it, and
\* when it is valid it is returned, whatever files are listed before it.
C31_FirstMatchDecides ==
    (last.op = "find" /\ \E f \in stash : IdentifierMatches(f.name, last.ident)) =>
        LET first == FirstMatching(last.listing.stash, last.ident)
        IN  IF InvalidType(first.text)
            THEN ~last.found.found /\ last.error = "invalid-type"
            ELSE last.found.found /\ last.found.name = first.name

\* C31 witness: the first matching file was malformed, a valid file listed
\* after it matched too, and the find returned the invalid-type error.
C31_Witness ==
    /\ last.op = "find"
    /\ last.error = "invalid-type"
    /\ Len(last.listing.stash) = 2
    /\ IdentifierMatches(last.listing.stash[1].name, last.ident)
    /\ InvalidType(last.listing.stash[1].text)
    /\ IdentifierMatches(last.listing.stash[2].name, last.ident)
    /\ ~InvalidType(last.listing.stash[2].text)

\* C33: in every step, every file of achieved stays in achieved with the
\* same name and the same text, and belongs to the same issue as before.
C33_AchievedIsTerminal == [][\A f \in achieved : f \in achieved']_vars

\* the text holds a marker block whose Issue ID line carries the number
BlockNames(text, number) ==
    Includes(text, <<"**Issue ID:** ">> \o DigitsOf(number) \o <<NL>>)

\* C34: after every successful open or close through the command handlers,
\* AGENTS.md holds a marker block exactly when some issue is in doing, and
\* then the block carries the number of an issue that is in doing.
C34_BriefFollowsDoing ==
    (last.op \in {"open", "close"} /\ last.success) =>
        /\ (agents.exists /\ CountBlocks(agents.text) > 0) <=> (doing # {})
        /\ doing # {} =>
              \E f \in doing :
                  isIssueFile(f.name) /\ BlockNames(agents.text, extractIssueNumber(f.name))

\* C37: a close whose identifier resolves to a file of stash reports failure
\* and leaves stash, doing, achieved, solution.md and AGENTS.md as they were.
C37_CloseOfStashedIssue ==
    (last.op = "close" /\ last.found.found /\ last.found.dir = STASH) =>
        /\ ~last.success
        /\ Disk = last.pre

\* C32: the name of every issue file in stash and doing is the name that
\* generateIssueFilename rebuilds from the title and the number read back
\* from that name, and the file a successful close has written to achieved
\* carries the slug of the file the close found.
C32_SlugStableAcrossStages ==
    /\ \A f \in stash \cup doing :
          isIssueFile(f.name) =>
              /\ sanitizeTitle(StripIssueSuffix(f.name)) = StripIssueSuffix(f.name)
              /\ generateIssueFilename(StripIssueSuffix(f.name), extractIssueNumber(f.name))
                    = f.name
    /\ (last.op = "close" /\ last.success) =>
          HasName(achieved, StripIssueSuffix(last.found.name) \o DotMd)

\* the two calls have both been given an id, and no file was written between
\* their readings of stash
ScannedTogether(i, j) ==
    /\ i # j
    /\ creating[i].pos \in {"write", "done"}
    /\ creating[j].pos \in {"write", "done"}
    /\ creating[i].epoch = creating[j].epoch

\* C35: two create calls that read the directories with no write between
\* their readings are given the same id; once both have written, stash holds
\* two files with that number when their slugs differ, and when the slugs
\* are equal the file of the call that wrote first is no longer there.
C35_NothingReserved ==
    \A i, j \in 1..Len(creating) :
        ScannedTogether(i, j) =>
            /\ creating[i].id = creating[j].id
            /\ (creating[i].pos = "done" /\ creating[j].pos = "done"
                    /\ creating[i].order < creating[j].order) =>
                  LET first  == generateIssueFilename(creating[i].title, creating[i].id)
                      second == generateIssueFilename(creating[j].title, creating[j].id)
                  IN  IF first = second
                      THEN /\ FilesOf(stash, i) = {}
                           /\ Cardinality({f \in stash : f.name = first}) = 1
                      ELSE /\ HasName(stash, first)
                           /\ HasName(stash, second)
                           /\ Cardinality(Numbered(stash, creating[i].id)) >= 2

\* C35 witness: two calls that read together have both written, and stash
\* holds two files with one number.
C35_Witness ==
    \E i, j \in 1..Len(creating) :
        /\ ScannedTogether(i, j)
        /\ creating[i].pos = "done"
        /\ creating[j].pos = "done"
        /\ Cardinality(Numbered(stash, creating[i].id)) = 2

\* C36: at most one submitted command is between its first file operation
\* and its last: no two create calls have both read a directory while
\* neither has written its file.
C36_HandlersOneAtATime ==
    Cardinality({i \in 1..Len(creating) : creating[i].pos \in {"readDoing", "write"}}) <= 1

\* C38: getNextSelectedIndex, for a current index inside the list and either
\* direction, returns 0 for an empty list and a position of the list
\* otherwise; and after any sequence of key events, whenever the completion
\* list is shown and not empty, selectedIndex is a position of the list.
C38_SelectedIndexInRange ==
    /\ last.op = "nextIndex" =>
          LET total == last.ident[2]
              next  == last.found.issue.number
          IN  IF total = 0 THEN next = 0 ELSE next \in 0..(total - 1)
    /\ (input.showCompletion /\ Len(getMatchingCommands(input.value)) > 0) =>
          input.selectedIndex \in 0..(Len(getMatchingCommands(input.value)) - 1)

\* C38 witness: the list is shown with several commands and Down has moved
\* the selection to the last of them.
C38_Witness ==
    /\ input.showCompletion
    /\ Len(getMatchingCommands(input.value)) > 1
    /\ input.selectedIndex = Len(getMatchingCommands(input.value)) - 1

\* C39: when Up has been pressed k times from inactive history navigation,
\* with the list hidden and a history that is not empty, and Down k times
\* after that with no other key between, the value is the text that was
\* there before the first Up and history navigation is inactive; and no two
\* neighbouring entries of the history are equal.
C39_HistoryRestoresDraft ==
    /\ (input.run.active /\ input.run.downs = input.run.ups) =>
          /\ input.value = input.run.start
          /\ input.historyIndex = HistoryIndexNull
    /\ \A i \in 1..(Len(input.history) - 1) : input.history[i] # input.history[i + 1]

\* C39 witness: Up twice and Down twice over a history that is not empty,
\* with a draft that was not empty.
C39_Witness ==
    /\ input.run.active
    /\ input.run.ups = 2
    /\ input.run.downs = 2
    /\ input.run.start # <<>>
    /\ Len(input.history) > 0

====
